---- MODULE Spec2Model ----
(***************************************************************************)
(* RADOS reference tracker (rt_add / rt_remove), store-version revision.   *)
(*                                                                         *)
(* One tracker object lives in the object store.  Every caller runs        *)
(* rt_add or rt_remove as a sequence of store round trips; each round trip *)
(* is one atomic step of the model, the code between two round trips is    *)
(* local to the caller and is folded into the step that precedes it.       *)
(***************************************************************************)
EXTENDS Integers, Sequences, FiniteSets, TLC

\* ------------------------------------------------------------------------
\* Bounds of the model.
\* ------------------------------------------------------------------------

\* Longest key batch a caller passes (keys_count).
MaxBatch == 2

\* In the payload-generation revision a caller starts a new call only while
\* the store's version counter is below this value.
MaxGenVersion == 3

\* A caller starts a new call only while the store's version counter is
\* below this value.
MaxVersion == 2

\* The reference keys callers use.
Keys == {"a", "b"}

\* The concurrent callers (threads or nodes).
Callers == {1, 2}

\* Key batches: non-empty arrays of keys, duplicates allowed.
Batches == UNION {[1..n -> Keys] : n \in 1..MaxBatch}

\* ------------------------------------------------------------------------
\* Program constants.
\* ------------------------------------------------------------------------

RT_CURRENT_VERSION == 1

ENOENT == 2
EEXIST == 17
ERANGE == 34
ENODATA == 61
EOVERFLOW == 75

\* A failed rados_write_op_cmpext returns -(MAX_ERRNO + offset of the first
\* byte that differs).
MAX_ERRNO == 4095

\* ------------------------------------------------------------------------
\* uint32_t values and their big-endian encoding.
\* A uint32_t is kept as two 16-bit halves so that arithmetic wraps at 2^32.
\* ------------------------------------------------------------------------

Half == 65536

U32(n) == [hi |-> (n \div Half) % Half, lo |-> n % Half]

\* x + n (mod 2^32), 0 <= n < 2^16.
U32Add(x, n) ==
  LET s == x.lo + n
  IN  [hi |-> (x.hi + (s \div Half)) % Half, lo |-> s % Half]

\* x - n (mod 2^32), 0 <= n < 2^16.
U32Sub(x, n) ==
  LET d == x.lo - n
  IN  IF d >= 0 THEN [hi |-> x.hi, lo |-> d]
      ELSE [hi |-> (x.hi + Half - 1) % Half, lo |-> d + Half]

\* htonl + memcpy into a 4-byte buffer: most significant byte first.
htonl(x) == <<x.hi \div 256, x.hi % 256, x.lo \div 256, x.lo % 256>>

\* memcpy out of a 4-byte buffer + ntohl.
ntohl(b) == [hi |-> b[1] * 256 + b[2], lo |-> b[3] * 256 + b[4]]

\* ------------------------------------------------------------------------
\* The tracker object in the store.
\* ------------------------------------------------------------------------

Range(s) == {s[i] : i \in DOMAIN s}

\* The object does not exist.
NoObject ==
  [exists |-> FALSE, xattr |-> <<>>, data |-> <<>>, omap |-> {}, objver |-> 0]

\* rados_write_op_assert_version / rados_read_op_assert_version: 0 when the
\* object's version is ver, -ERANGE when the object is newer, -EOVERFLOW when
\* it is older (a missing object has version 0).
assert_version_never(obj, ver) == 0

assert_version_newer(obj, ver) ==
  IF ver < obj.objver THEN -ERANGE ELSE 0

assert_version_next(obj, ver) ==
  IF ver + 1 < obj.objver THEN -ERANGE
  ELSE IF ver + 1 > obj.objver THEN -EOVERFLOW
  ELSE 0

assert_version_le(obj, ver) ==
  IF ver <= obj.objver THEN -ERANGE ELSE 0

assert_version(obj, ver) ==
  IF ver < obj.objver THEN -ERANGE
  ELSE IF ver > obj.objver THEN -EOVERFLOW
  ELSE 0

\* rados_getxattr of the RT version xattr.
getxattr_nodata(obj) ==
  IF ~obj.exists \/ obj.xattr = <<>> THEN [ret |-> -ENODATA, val |-> <<>>]
  ELSE [ret |-> Len(obj.xattr), val |-> obj.xattr]

getxattr(obj) ==
  IF ~obj.exists THEN [ret |-> -ENOENT, val |-> <<>>]
  ELSE IF obj.xattr = <<>> THEN [ret |-> -ENODATA, val |-> <<>>]
  ELSE [ret |-> Len(obj.xattr), val |-> obj.xattr]

\* read_rt_version: the RT version of the object, or the store's error.
read_rt_version_current(obj) ==
  LET r == getxattr(obj)
  IN  IF r.ret < 0 THEN [ret |-> r.ret, version |-> U32(0)]
      ELSE [ret |-> 0, version |-> U32(RT_CURRENT_VERSION)]

read_rt_version(obj) ==
  LET r == getxattr(obj)
  IN  IF r.ret < 0 THEN [ret |-> r.ret, version |-> U32(0)]
      ELSE [ret |-> 0, version |-> ntohl(r.val)]

\* The version of an earlier operation of the handle, not of the object just
\* probed.
rados_get_last_version_stale(obj) == 0

\* rados_get_last_version after the getxattr: the version of the object read.
rados_get_last_version(obj) == obj.objver

\* init_v1: exclusive create with the version xattr, the refcount payload
\* and one OMap entry per key.  newver is the version the store assigns.
init_v1_one(obj, ks, newver) ==
  IF obj.exists THEN [ret |-> -EEXIST, obj |-> obj]
  ELSE [ret |-> 0,
        obj |-> [exists |-> TRUE,
                 xattr  |-> htonl(U32(RT_CURRENT_VERSION)),
                 data   |-> htonl(U32(1)),
                 omap   |-> Range(ks),
                 objver |-> newver]]

init_v1(obj, ks, newver) ==
  IF obj.exists THEN [ret |-> -EEXIST, obj |-> obj]
  ELSE [ret |-> 0,
        obj |-> [exists |-> TRUE,
                 xattr  |-> htonl(U32(RT_CURRENT_VERSION)),
                 data   |-> htonl(U32(Len(ks))),
                 omap   |-> Range(ks),
                 objver |-> newver]]

\* The presence vector of read_v1: ref_keys_found[i] is set when keys[i] is
\* among the keys fetched from the OMap.
found_none(fetched, ks) == [i \in DOMAIN ks |-> FALSE]

found_vector(fetched, ks) == [i \in DOMAIN ks |-> ks[i] \in fetched]

\* read_v1: one read operation asserting the version, reading the payload
\* and looking the requested keys up in the OMap.
read_v1_noassert(obj, g, ks) ==
  IF ~obj.exists
  THEN [ret |-> -ENOENT, refcount |-> U32(0), found |-> <<>>]
  ELSE [ret |-> 0,
        refcount |-> ntohl(obj.data),
        found |-> found_vector(obj.omap \cap Range(ks), ks)]

read_v1(obj, g, ks) ==
  IF ~obj.exists
  THEN [ret |-> -ENOENT, refcount |-> U32(0), found |-> <<>>]
  ELSE IF assert_version(obj, g) < 0
  THEN [ret |-> assert_version(obj, g), refcount |-> U32(0), found |-> <<>>]
  ELSE [ret |-> 0,
        refcount |-> ntohl(obj.data),
        found |-> found_vector(obj.omap \cap Range(ks), ks)]

\* keys_to_add_count / keys_to_remove_count: one per array slot.
keys_to_add_count_all(found) == Len(found)

keys_to_add_count(found) == Cardinality({i \in DOMAIN found : ~found[i]})

keys_to_remove_count_all(found) == Len(found)

keys_to_remove_count(found) == Cardinality({i \in DOMAIN found : found[i]})

\* keys_to_add / keys_to_remove: the keys of the selected slots.
keys_to_add(ks, found) == {ks[i] : i \in {j \in DOMAIN ks : ~found[j]}}

keys_to_remove(ks, found) == {ks[i] : i \in {j \in DOMAIN ks : found[j]}}

\* The write operation of add_v1: assert the version, rewrite the payload
\* with the new refcount and set the OMap entries.
add_v1_write_setxattr(obj, g, rc, found, ks, newver) ==
  IF assert_version(obj, g) < 0
  THEN [ret |-> assert_version(obj, g), obj |-> obj]
  ELSE [ret |-> 0,
        obj |-> [obj EXCEPT
                   !.exists = TRUE,
                   !.xattr  = htonl(U32(RT_CURRENT_VERSION + 1)),
                   !.data   = htonl(U32Add(rc, keys_to_add_count(found))),
                   !.omap   = obj.omap \cup keys_to_add(ks, found),
                   !.objver = newver]]

add_v1_write_swallow(obj, g, rc, found, ks, newver) ==
  IF assert_version(obj, g) < 0
  THEN [ret |-> 0, obj |-> obj]
  ELSE [ret |-> 0,
        obj |-> [obj EXCEPT
                   !.exists = TRUE,
                   !.data   = htonl(U32Add(rc, keys_to_add_count(found))),
                   !.omap   = obj.omap \cup keys_to_add(ks, found),
                   !.objver = newver]]

add_v1_write_partial(obj, g, rc, found, ks, newver) ==
  IF assert_version(obj, g) < 0
  THEN [ret |-> assert_version(obj, g),
        obj |-> [obj EXCEPT !.omap = obj.omap \cup keys_to_add(ks, found)]]
  ELSE [ret |-> 0,
        obj |-> [obj EXCEPT
                   !.exists = TRUE,
                   !.data   = htonl(U32Add(rc, keys_to_add_count(found))),
                   !.omap   = obj.omap \cup keys_to_add(ks, found),
                   !.objver = newver]]

add_v1_write(obj, g, rc, found, ks, newver) ==
  IF assert_version(obj, g) < 0
  THEN [ret |-> assert_version(obj, g), obj |-> obj]
  ELSE [ret |-> 0,
        obj |-> [obj EXCEPT
                   !.exists = TRUE,
                   !.data   = htonl(U32Add(rc, keys_to_add_count(found))),
                   !.omap   = obj.omap \cup keys_to_add(ks, found),
                   !.objver = newver]]

\* The write operation of remove_v1: assert the version, then remove the
\* object when the new refcount is 0 and otherwise rewrite the payload and
\* remove the OMap entries.  removed is set before the operation runs.
remove_v1_write_keep(obj, g, rc, found, ks, newver) ==
  LET newrc   == U32Sub(rc, keys_to_remove_count(found))
  IN  IF assert_version(obj, g) < 0
      THEN [ret |-> assert_version(obj, g), obj |-> obj, removed |-> 0]
      ELSE [ret |-> 0,
            obj |-> [obj EXCEPT
                       !.exists = TRUE,
                       !.data   = htonl(newrc),
                       !.omap   = obj.omap \ keys_to_remove(ks, found),
                       !.objver = newver],
            removed |-> 0]

remove_v1_write(obj, g, rc, found, ks, newver) ==
  LET newrc   == U32Sub(rc, keys_to_remove_count(found))
      removed == IF newrc = U32(0) THEN 1 ELSE 0
  IN  IF assert_version(obj, g) < 0
      THEN [ret |-> assert_version(obj, g), obj |-> obj, removed |-> removed]
      ELSE IF newrc = U32(0)
      THEN [ret |-> 0, obj |-> NoObject, removed |-> removed]
      ELSE [ret |-> 0,
            obj |-> [obj EXCEPT
                       !.exists = TRUE,
                       !.data   = htonl(newrc),
                       !.omap   = obj.omap \ keys_to_remove(ks, found),
                       !.objver = newver],
            removed |-> removed]

\* ------------------------------------------------------------------------
\* State.
\* ------------------------------------------------------------------------

VARIABLES
  store,          \* the tracker object as the store holds it
  pgver,          \* the store's version counter (last version it assigned)
  pc,             \* per caller: "idle", "probe", "init", "read", "write"
                  \* inside a call, "done" when the call has returned
  op,             \* per caller: "none", "add" or "rem"
  keys,           \* per caller: the key batch of the call
  gen,            \* per caller: version returned by rados_get_last_version
                  \* (kept after a failed write until the next call)
  refcount,       \* per caller: refcount read by read_v1
  ref_keys_found, \* per caller: presence vector filled by read_v1
  ret,            \* per caller: return value of the call
  created,        \* per caller: *rt_created
  deleted,        \* per caller: *rt_deleted
  absKeys,        \* history: the atomic key set the calls are compared with
  expect,         \* history: created/deleted flag the atomic key set gives
  committed,      \* history: per version, writes committed asserting it
  quiet,          \* history: no other caller wrote since the call returned
  repeat,         \* history: the call repeats the caller's successful add
                  \* and no other caller wrote since that add returned
  retries,        \* history: times the caller restarted its failed call
  creates,        \* history: number of committed exclusive creates
  ops,            \* history: the store operations the call has issued
  after,          \* history: the caller's successful call this call follows
                  \* at once: "none", "add", "created" (an add that created
                  \* the object) or "rem"
  gen_store,      \* the tracker object of the payload-generation revision,
                  \* kept in a store of its own
  gen_out         \* the result of the payload-generation revision's last
                  \* call: return value, *rt_created, *rt_deleted

vars == <<store, pgver, pc, op, keys, gen, refcount, ref_keys_found, ret,
          created, deleted, absKeys, expect, committed, quiet, repeat,
          retries, creates, ops, after, gen_store, gen_out>>

Versions == 0..(MaxVersion + Cardinality(Callers))

\* The key set a reader of the store sees.
KeySet == IF store.exists THEN store.omap ELSE {}

\* A caller outside a call holds no locals.
NoLocals(c) ==
  /\ gen' = [gen EXCEPT ![c] = 0]
  /\ refcount' = [refcount EXCEPT ![c] = U32(0)]
  /\ ref_keys_found' = [ref_keys_found EXCEPT ![c] = <<>>]

\* The same after the write operation returned r.
NoLocalsAfterWrite(c, r) ==
  /\ gen' = [gen EXCEPT ![c] = IF r = 0 THEN 0 ELSE gen[c]]
  /\ refcount' = [refcount EXCEPT ![c] = U32(0)]
  /\ ref_keys_found' = [ref_keys_found EXCEPT ![c] = <<>>]

\* The call of c takes effect on the atomic key set.
TakesEffect(c) ==
  /\ absKeys' = IF op[c] = "add" THEN absKeys \cup Range(keys[c])
                ELSE absKeys \ Range(keys[c])
  /\ expect' = [expect EXCEPT ![c] =
                  IF op[c] = "add" THEN absKeys = {}
                  ELSE absKeys \ Range(keys[c]) = {}]

NoEffect == UNCHANGED <<absKeys, expect>>

\* The call of c issues the store operation o (one round trip).
Issues(c, o) ==
  /\ ops' = [ops EXCEPT ![c] = Append(ops[c], o)]
  /\ UNCHANGED after

\* c returns with value r; wrote tells whether this step committed a write.
Returns(c, r, wrote) ==
  /\ pc' = [pc EXCEPT ![c] = "done"]
  /\ ret' = [ret EXCEPT ![c] = r]
  /\ quiet' = [d \in Callers |->
                 IF d = c THEN TRUE
                 ELSE IF wrote THEN FALSE ELSE quiet[d]]
  /\ repeat' = [d \in Callers |->
                  IF d # c /\ wrote THEN FALSE ELSE repeat[d]]

TypeOK ==
  /\ store.exists \in BOOLEAN
  /\ store.omap \subseteq Keys
  /\ store.objver \in Versions
  /\ pgver \in Versions
  /\ pc \in [Callers -> {"idle", "probe", "init", "read", "write", "done"}]
  /\ op \in [Callers -> {"none", "add", "rem"}]
  /\ \A c \in Callers : keys[c] = <<>> \/ keys[c] \in Batches
  /\ gen \in [Callers -> Versions]
  /\ created \in [Callers -> {0, 1}]
  /\ deleted \in [Callers -> {0, 1}]
  /\ absKeys \subseteq Keys

\* ------------------------------------------------------------------------
\* Initial states.
\* ------------------------------------------------------------------------

InitCallers ==
  /\ gen = [c \in Callers |-> 0]
  /\ refcount = [c \in Callers |-> U32(0)]
  /\ ref_keys_found = [c \in Callers |-> <<>>]
  /\ ret = [c \in Callers |-> 0]
  /\ created = [c \in Callers |-> 0]
  /\ deleted = [c \in Callers |-> 0]
  /\ expect = [c \in Callers |-> FALSE]
  /\ committed = [v \in Versions |-> 0]
  /\ quiet = [c \in Callers |-> FALSE]
  /\ repeat = [c \in Callers |-> FALSE]
  /\ retries = [c \in Callers |-> 0]
  /\ creates = 0
  /\ ops = [c \in Callers |-> <<>>]
  /\ after = [c \in Callers |-> "none"]
  /\ gen_store = NoObject
  /\ gen_out = [ret |-> 0, created |-> 0, deleted |-> 0]

\* No tracker object, no call yet.
Init ==
  /\ store = NoObject
  /\ pgver = 0
  /\ pc = [c \in Callers |-> "idle"]
  /\ op = [c \in Callers |-> "none"]
  /\ keys = [c \in Callers |-> <<>>]
  /\ absKeys = {}
  /\ InitCallers

\* ------------------------------------------------------------------------
\* Actions: one per store round trip of rt_add and rt_remove.
\* ------------------------------------------------------------------------

\* A caller invokes rt_add or rt_remove with a non-empty key batch.
Call(c) ==
  /\ pc[c] = "idle"
  /\ pgver < MaxVersion
  /\ \E o \in {"add", "rem"}, ks \in Batches :
       /\ op' = [op EXCEPT ![c] = o]
       /\ keys' = [keys EXCEPT ![c] = ks]
  /\ pc' = [pc EXCEPT ![c] = "probe"]
  /\ UNCHANGED <<store, pgver, gen, refcount, ref_keys_found, ret, created,
                 deleted, absKeys, expect, committed, quiet, repeat, retries,
                 creates, ops, after>>
  /\ UNCHANGED <<gen_store, gen_out>>

\* The caller takes the result of its call.
Return(c) ==
  /\ pc[c] = "done"
  /\ pc' = [pc EXCEPT ![c] = "idle"]
  /\ op' = [op EXCEPT ![c] = "none"]
  /\ keys' = [keys EXCEPT ![c] = <<>>]
  /\ gen' = [gen EXCEPT ![c] = 0]
  /\ ret' = [ret EXCEPT ![c] = 0]
  /\ created' = [created EXCEPT ![c] = 0]
  /\ deleted' = [deleted EXCEPT ![c] = 0]
  /\ expect' = [expect EXCEPT ![c] = FALSE]
  /\ quiet' = [quiet EXCEPT ![c] = FALSE]
  /\ repeat' = [repeat EXCEPT ![c] = FALSE]
  /\ ops' = [ops EXCEPT ![c] = <<>>]
  /\ after' = [after EXCEPT ![c] = "none"]
  /\ UNCHANGED <<store, pgver, refcount, ref_keys_found, absKeys, committed,
                 retries, creates>>
  /\ UNCHANGED <<gen_store, gen_out>>

\* The caller of a successful rt_add calls rt_add again with the same keys.
CallAgain(c) ==
  /\ pc[c] = "done"
  /\ pgver < MaxVersion
  /\ op[c] = "add"
  /\ ret[c] = 0
  /\ pc' = [pc EXCEPT ![c] = "probe"]
  /\ gen' = [gen EXCEPT ![c] = 0]
  /\ created' = [created EXCEPT ![c] = 0]
  /\ expect' = [expect EXCEPT ![c] = FALSE]
  /\ repeat' = [repeat EXCEPT ![c] = quiet[c]]
  /\ ops' = [ops EXCEPT ![c] = <<>>]
  /\ after' = [after EXCEPT ![c] =
                  IF created[c] = 1 THEN "created" ELSE "add"]
  /\ UNCHANGED <<store, pgver, op, keys, refcount, ref_keys_found, ret,
                 deleted, absKeys, committed, quiet, retries, creates>>
  /\ UNCHANGED <<gen_store, gen_out>>

\* The caller of a successful rt_remove calls rt_remove again with the same
\* keys.
RemoveAgain(c) ==
  /\ pc[c] = "done"
  /\ pgver <= MaxVersion
  /\ op[c] = "rem"
  /\ ret[c] = 0
  /\ pc' = [pc EXCEPT ![c] = "probe"]
  /\ gen' = [gen EXCEPT ![c] = 0]
  /\ deleted' = [deleted EXCEPT ![c] = 0]
  /\ expect' = [expect EXCEPT ![c] = FALSE]
  /\ repeat' = [repeat EXCEPT ![c] = quiet[c]]
  /\ ops' = [ops EXCEPT ![c] = <<>>]
  /\ after' = [after EXCEPT ![c] = "rem"]
  /\ UNCHANGED <<store, pgver, op, keys, refcount, ref_keys_found, ret,
                 created, absKeys, committed, quiet, retries, creates>>
  /\ UNCHANGED <<gen_store, gen_out>>

\* The caller of a successful rt_add calls rt_remove with the same keys.
ThenRemove(c) ==
  /\ pc[c] = "done"
  /\ pgver < MaxVersion
  /\ op[c] = "add"
  /\ ret[c] = 0
  /\ pc' = [pc EXCEPT ![c] = "probe"]
  /\ op' = [op EXCEPT ![c] = "rem"]
  /\ gen' = [gen EXCEPT ![c] = 0]
  /\ created' = [created EXCEPT ![c] = 0]
  /\ expect' = [expect EXCEPT ![c] = FALSE]
  /\ repeat' = [repeat EXCEPT ![c] = quiet[c]]
  /\ ops' = [ops EXCEPT ![c] = <<>>]
  /\ after' = [after EXCEPT ![c] =
                  IF created[c] = 1 THEN "created" ELSE "add"]
  /\ UNCHANGED <<store, pgver, keys, refcount, ref_keys_found, ret, deleted,
                 absKeys, committed, quiet, retries, creates>>
  /\ UNCHANGED <<gen_store, gen_out>>

\* The caller of a failed call calls again with the same arguments.
Retry(c) ==
  /\ pc[c] = "done"
  /\ ret[c] < 0
  /\ pc' = [pc EXCEPT ![c] = "probe"]
  /\ ret' = [ret EXCEPT ![c] = 0]
  /\ created' = [created EXCEPT ![c] = 0]
  /\ deleted' = [deleted EXCEPT ![c] = 0]
  /\ expect' = [expect EXCEPT ![c] = FALSE]
  /\ retries' = [retries EXCEPT ![c] = retries[c] + 1]
  /\ gen' = [gen EXCEPT ![c] = 0]
  /\ ops' = [ops EXCEPT ![c] = <<>>]
  /\ UNCHANGED <<store, pgver, op, keys, refcount, ref_keys_found,
                 absKeys, committed, quiet, repeat, creates, after>>
  /\ UNCHANGED <<gen_store, gen_out>>

\* rt_add up to its first round trip: read_rt_version, then the dispatch on
\* the result (ENOENT: go on to init_v1; version 1: go on to add_v1).
RtAddProbe(c) ==
  /\ pc[c] = "probe"
  /\ op[c] = "add"
  /\ Issues(c, "getxattr")
  /\ LET r == read_rt_version(store)
     IN  IF r.ret < 0
         THEN IF r.ret = -ENOENT
              THEN /\ pc' = [pc EXCEPT ![c] = "init"]
                   /\ UNCHANGED <<ret, quiet, repeat, gen>>
              ELSE /\ Returns(c, r.ret, FALSE)
                   /\ UNCHANGED gen
         ELSE IF r.version = U32(1)
              THEN /\ pc' = [pc EXCEPT ![c] = "read"]
                   /\ gen' = [gen EXCEPT ![c] = rados_get_last_version(store)]
                   /\ UNCHANGED <<ret, quiet, repeat>>
              ELSE /\ Returns(c, -1, FALSE)
                   /\ UNCHANGED gen
  /\ NoEffect
  /\ UNCHANGED <<store, pgver, op, keys, refcount, ref_keys_found, created,
                 deleted, committed, retries, creates>>
  /\ UNCHANGED <<gen_store, gen_out>>

\* rt_add, ENOENT branch: init_v1, then created = 1 whatever it returned.
InitV1(c) ==
  /\ pc[c] = "init"
  /\ Issues(c, "create")
  /\ LET r == init_v1(store, keys[c], pgver + 1)
     IN  /\ store' = r.obj
         /\ pgver' = IF r.ret = 0 THEN pgver + 1 ELSE pgver
         /\ creates' = IF r.ret = 0 THEN creates + 1 ELSE creates
         /\ Returns(c, r.ret, r.ret = 0)
         /\ IF r.ret = 0 THEN TakesEffect(c) ELSE NoEffect
  /\ created' = [created EXCEPT ![c] = 1]
  /\ UNCHANGED <<op, keys, gen, refcount, ref_keys_found, deleted,
                 committed, retries>>
  /\ UNCHANGED <<gen_store, gen_out>>

\* add_v1 up to its read: read_v1, then the count of keys to add; nothing to
\* add returns 0 without a write.
AddV1Read(c) ==
  /\ pc[c] = "read"
  /\ op[c] = "add"
  /\ Issues(c, "read")
  /\ LET r == read_v1(store, gen[c], keys[c])
     IN  IF r.ret < 0
         THEN /\ Returns(c, r.ret, FALSE)
              /\ NoLocals(c)
              /\ NoEffect
         ELSE IF keys_to_add_count(r.found) = 0
         THEN /\ Returns(c, 0, FALSE)
              /\ NoLocals(c)
              /\ TakesEffect(c)
         ELSE /\ pc' = [pc EXCEPT ![c] = "write"]
              /\ refcount' = [refcount EXCEPT ![c] = r.refcount]
              /\ ref_keys_found' = [ref_keys_found EXCEPT ![c] = r.found]
              /\ NoEffect
              /\ UNCHANGED <<gen, ret, quiet, repeat>>
  /\ UNCHANGED <<store, pgver, op, keys, created, deleted, committed,
                 retries, creates>>
  /\ UNCHANGED <<gen_store, gen_out>>

\* add_v1 from the new refcount to the end: the write operation.
AddV1Write(c) ==
  /\ pc[c] = "write"
  /\ op[c] = "add"
  /\ Issues(c, "write")
  /\ LET w == add_v1_write(store, gen[c], refcount[c], ref_keys_found[c],
                           keys[c], pgver + 1)
     IN  /\ store' = w.obj
         /\ pgver' = IF w.ret = 0 THEN pgver + 1 ELSE pgver
         /\ committed' = IF w.ret = 0
                         THEN [committed EXCEPT ![gen[c]] = @ + 1]
                         ELSE committed
         /\ Returns(c, w.ret, w.ret = 0)
         /\ IF w.ret = 0 THEN TakesEffect(c) ELSE NoEffect
         /\ NoLocalsAfterWrite(c, w.ret)
  /\ UNCHANGED <<op, keys, created, deleted, retries, creates>>
  /\ UNCHANGED <<gen_store, gen_out>>

\* rt_remove up to its first round trip: read_rt_version, then the dispatch
\* (ENOENT: success, deleted = 1; version 1: go on to remove_v1).
RtRemoveProbe(c) ==
  /\ pc[c] = "probe"
  /\ op[c] = "rem"
  /\ Issues(c, "getxattr")
  /\ LET r == read_rt_version(store)
     IN  IF r.ret < 0
         THEN IF r.ret = -ENOENT
              THEN /\ Returns(c, 0, FALSE)
                   /\ deleted' = [deleted EXCEPT ![c] = 1]
                   /\ TakesEffect(c)
                   /\ UNCHANGED gen
              ELSE /\ Returns(c, r.ret, FALSE)
                   /\ NoEffect
                   /\ UNCHANGED <<gen, deleted>>
         ELSE IF r.version = U32(1)
              THEN /\ pc' = [pc EXCEPT ![c] = "read"]
                   /\ gen' = [gen EXCEPT ![c] = rados_get_last_version(store)]
                   /\ NoEffect
                   /\ UNCHANGED <<ret, quiet, repeat, deleted>>
              ELSE /\ Returns(c, -1, FALSE)
                   /\ NoEffect
                   /\ UNCHANGED <<gen, deleted>>
  /\ UNCHANGED <<store, pgver, op, keys, refcount, ref_keys_found, created,
                 committed, retries, creates>>
  /\ UNCHANGED <<gen_store, gen_out>>

\* remove_v1 up to its read: read_v1, then the count of keys to remove;
\* nothing to remove returns 0 without a write.
RemoveV1Read(c) ==
  /\ pc[c] = "read"
  /\ op[c] = "rem"
  /\ Issues(c, "read")
  /\ LET r == read_v1(store, gen[c], keys[c])
     IN  IF r.ret < 0
         THEN /\ Returns(c, r.ret, FALSE)
              /\ NoLocals(c)
              /\ NoEffect
         ELSE IF keys_to_remove_count(r.found) = 0
         THEN /\ Returns(c, 0, FALSE)
              /\ NoLocals(c)
              /\ TakesEffect(c)
         ELSE /\ pc' = [pc EXCEPT ![c] = "write"]
              /\ refcount' = [refcount EXCEPT ![c] = r.refcount]
              /\ ref_keys_found' = [ref_keys_found EXCEPT ![c] = r.found]
              /\ NoEffect
              /\ UNCHANGED <<gen, ret, quiet, repeat>>
  /\ UNCHANGED <<store, pgver, op, keys, created, deleted, committed,
                 retries, creates>>
  /\ UNCHANGED <<gen_store, gen_out>>

\* remove_v1 from the new refcount to the end: the write operation; removed
\* is handed to the caller whatever the operation returned.
RemoveV1Write(c) ==
  /\ pc[c] = "write"
  /\ op[c] = "rem"
  /\ Issues(c, "write")
  /\ LET w == remove_v1_write(store, gen[c], refcount[c], ref_keys_found[c],
                              keys[c], pgver + 1)
     IN  /\ store' = w.obj
         /\ pgver' = IF w.ret = 0 THEN pgver + 1 ELSE pgver
         /\ committed' = IF w.ret = 0
                         THEN [committed EXCEPT ![gen[c]] = @ + 1]
                         ELSE committed
         /\ deleted' = [deleted EXCEPT ![c] = w.removed]
         /\ Returns(c, w.ret, w.ret = 0)
         /\ IF w.ret = 0 THEN TakesEffect(c) ELSE NoEffect
         /\ NoLocalsAfterWrite(c, w.ret)
  /\ UNCHANGED <<op, keys, created, retries, creates>>
  /\ UNCHANGED <<gen_store, gen_out>>

\* ------------------------------------------------------------------------
\* Specifications.
\* ------------------------------------------------------------------------

\* Any number of calls by every caller, in any interleaving.
Next ==
  \E c \in Callers :
    \/ Call(c)
    \/ Return(c)
    \/ CallAgain(c)
    \/ RtAddProbe(c)
    \/ InitV1(c)
    \/ AddV1Read(c)
    \/ AddV1Write(c)
    \/ RtRemoveProbe(c)
    \/ RemoveV1Read(c)
    \/ RemoveV1Write(c)

Spec == Init /\ [][Next]_vars

\* A tracker object as a first rt_add of the keys T leaves it.
TrackerOf(T) ==
  [exists |-> TRUE,
   xattr  |-> htonl(U32(RT_CURRENT_VERSION)),
   data   |-> htonl(U32(Cardinality(T))),
   omap   |-> T,
   objver |-> 1]

\* Every caller is inside one rt_add call of its own batch.
AllAdding(batch) ==
  /\ pc = [c \in Callers |-> "probe"]
  /\ op = [c \in Callers |-> "add"]
  /\ keys = batch
  /\ InitCallers

\* The steps of a caller that runs one rt_add against an object that exists
\* and calls again when the call failed.
AddStep(c) == RtAddProbe(c) \/ AddV1Read(c) \/ AddV1Write(c) \/ Retry(c)

\* Two concurrent rt_add calls of one key each against an existing object.
InitTwoAdds ==
  \E T \in (SUBSET Keys) \ {{}}, k \in [Callers -> Keys] :
    /\ store = TrackerOf(T)
    /\ pgver = 1
    /\ absKeys = T
    /\ AllAdding([c \in Callers |-> <<k[c]>>])

NextTwoAdds == \E c \in Callers : AddStep(c)

\* A caller inside a call goes on: the calls are synchronous.
SpecTwoAdds ==
  InitTwoAdds /\ [][NextTwoAdds]_vars /\ \A c \in Callers : WF_vars(AddStep(c))

\* Concurrent first rt_add calls against a tracker that does not exist.
InitCreateRace ==
  \E b \in [Callers -> Batches] :
    /\ store = NoObject
    /\ pgver = 0
    /\ absKeys = {}
    /\ AllAdding(b)

NextCreateRace == \E c \in Callers : AddStep(c) \/ InitV1(c)

SpecCreateRace ==
  InitCreateRace /\ [][NextCreateRace]_vars
    /\ \A c \in Callers : WF_vars(AddStep(c) \/ InitV1(c))

\* Sequential use: a call starts only when no other caller is in a call or
\* holds a result, so no two calls overlap.  A caller may follow its
\* successful call at once by rt_add or rt_remove of the same keys.
SeqCall(c) ==
  /\ \A d \in Callers \ {c} : pc[d] = "idle"
  /\ Call(c)

NextSeq ==
  \E c \in Callers :
    \/ SeqCall(c)
    \/ Return(c)
    \/ CallAgain(c)
    \/ RemoveAgain(c)
    \/ ThenRemove(c)
    \/ RtAddProbe(c)
    \/ InitV1(c)
    \/ AddV1Read(c)
    \/ AddV1Write(c)
    \/ RtRemoveProbe(c)
    \/ RemoveV1Read(c)
    \/ RemoveV1Write(c)

SpecSeq == Init /\ [][NextSeq]_vars

\* One rt_add of key q and one rt_remove of key p, concurrent, against the
\* object that holds p; each caller calls again when its call failed.
InitAddRemove ==
  \E p \in Keys, q \in Keys, adder \in Callers :
    /\ p # q
    /\ store = TrackerOf({p})
    /\ pgver = 1
    /\ absKeys = {p}
    /\ pc = [c \in Callers |-> "probe"]
    /\ op = [c \in Callers |-> IF c = adder THEN "add" ELSE "rem"]
    /\ keys = [c \in Callers |-> IF c = adder THEN <<q>> ELSE <<p>>]
    /\ InitCallers

CallStep(c) ==
  \/ RtAddProbe(c)
  \/ InitV1(c)
  \/ AddV1Read(c)
  \/ AddV1Write(c)
  \/ RtRemoveProbe(c)
  \/ RemoveV1Read(c)
  \/ RemoveV1Write(c)
  \/ Retry(c)

NextAddRemove == \E c \in Callers : CallStep(c)

SpecAddRemove ==
  InitAddRemove /\ [][NextAddRemove]_vars
    /\ \A c \in Callers : WF_vars(CallStep(c))

\* Calls with batches that name no key twice, in any interleaving, a caller
\* calling again when its call failed.
CallDistinct(c) ==
  /\ Call(c)
  /\ Cardinality(Range(keys'[c])) = Len(keys'[c])

NextDistinct ==
  \E c \in Callers :
    \/ CallDistinct(c)
    \/ Return(c)
    \/ Retry(c)
    \/ RtAddProbe(c)
    \/ InitV1(c)
    \/ AddV1Read(c)
    \/ AddV1Write(c)
    \/ RtRemoveProbe(c)
    \/ RemoveV1Read(c)
    \/ RemoveV1Write(c)

SpecDistinct == Init /\ [][NextDistinct]_vars

\* A tracker object whose version xattr is not RT_CURRENT_VERSION: an object
\* written by another revision of the tracker (version 0 or 2, or version 1
\* stored in the other byte order).
UnknownVersions == {U32(0), U32(2), U32(16777216)}

InitUnknownVersion ==
  /\ \E v \in UnknownVersions, S \in SUBSET Keys :
       store = [exists |-> TRUE,
                xattr  |-> htonl(v),
                data   |-> htonl(U32(Cardinality(S))),
                omap   |-> S,
                objver |-> 1]
  /\ pgver = 1
  /\ pc = [c \in Callers |-> "idle"]
  /\ op = [c \in Callers |-> "none"]
  /\ keys = [c \in Callers |-> <<>>]
  /\ absKeys = KeySet
  /\ InitCallers

\* rt_add and rt_remove stop at the version dispatch.
NextUnknownVersion ==
  \E c \in Callers :
    \/ Call(c)
    \/ Return(c)
    \/ RtAddProbe(c)
    \/ RtRemoveProbe(c)

SpecUnknownVersion == InitUnknownVersion /\ [][NextUnknownVersion]_vars

\* ------------------------------------------------------------------------
\* Payload-generation revision: gen in payload bytes 0..3, refcount in bytes
\* 4..7; a write compares the stored gen with the gen it read.
\* ------------------------------------------------------------------------

\* The value of a uint32_t.
U32Val(x) == x.hi * Half + x.lo

\* The gen and the refcount a reader decodes from the payload.
PayloadGen(data) == ntohl(SubSeq(data, 1, 4))

PayloadRefcount(data) == ntohl(SubSeq(data, 5, 8))

\* init_v1: exclusive create with the version xattr, gen 1, the refcount
\* and one OMap entry per key.
init_v1_gen(obj, ks, newver) ==
  IF obj.exists THEN [ret |-> -EEXIST, obj |-> obj]
  ELSE [ret |-> 0,
        obj |-> [exists |-> TRUE,
                 xattr  |-> htonl(U32(RT_CURRENT_VERSION)),
                 data   |-> htonl(U32(1)) \o htonl(U32(Len(ks))),
                 omap   |-> Range(ks),
                 objver |-> newver]]

\* read_v1: one read operation, with no version assertion, reading gen and
\* refcount and looking the requested keys up in the OMap.
read_v1_gen_offset(obj, ks) ==
  IF ~obj.exists
  THEN [ret |-> -ENOENT, gen |-> 0, refcount |-> U32(0), found |-> <<>>]
  ELSE [ret |-> 0,
        gen |-> U32Val(PayloadGen(obj.data)),
        refcount |-> PayloadGen(obj.data),
        found |-> found_vector(obj.omap \cap Range(ks), ks)]

read_v1_gen(obj, ks) ==
  IF ~obj.exists
  THEN [ret |-> -ENOENT, gen |-> 0, refcount |-> U32(0), found |-> <<>>]
  ELSE [ret |-> 0,
        gen |-> U32Val(PayloadGen(obj.data)),
        refcount |-> PayloadRefcount(obj.data),
        found |-> found_vector(obj.omap \cap Range(ks), ks)]

\* rados_write_op_cmpext at offset 0: 0 when the object's first bytes are
\* buf (a missing object reads as zeros), else -(MAX_ERRNO + offset).
cmpext(obj, buf) ==
  LET d == IF obj.exists THEN obj.data ELSE <<>>
      byte(i) == IF i <= Len(d) THEN d[i] ELSE 0
      differs == {i \in 1..Len(buf) : buf[i] # byte(i)}
  IN  IF differs = {} THEN 0
      ELSE -(MAX_ERRNO + (CHOOSE i \in differs : \A j \in differs : i <= j) - 1)

\* The write operation of add_v1: compare gen, rewrite the payload with
\* gen + 1 and the new refcount, set the OMap entries.
add_v1_write_gen(obj, g, rc, found, ks, newver) ==
  IF cmpext(obj, htonl(U32(g))) < 0
  THEN [ret |-> cmpext(obj, htonl(U32(g))), obj |-> obj]
  ELSE [ret |-> 0,
        obj |-> [obj EXCEPT
                   !.exists = TRUE,
                   !.data   = htonl(U32Add(U32(g), 1))
                              \o htonl(U32Add(rc, keys_to_add_count(found))),
                   !.omap   = obj.omap \cup keys_to_add(ks, found),
                   !.objver = newver]]

\* The write operation of remove_v1: compare gen, then remove the object
\* when the new refcount is 0 and otherwise rewrite the payload and remove
\* the OMap entries.  removed is set before the operation runs.
remove_v1_write_gen(obj, g, rc, found, ks, newver) ==
  LET newrc   == U32Sub(rc, keys_to_remove_count(found))
      removed == IF newrc = U32(0) THEN 1 ELSE 0
  IN  IF cmpext(obj, htonl(U32(g))) < 0
      THEN [ret |-> cmpext(obj, htonl(U32(g))), obj |-> obj,
            removed |-> removed]
      ELSE IF newrc = U32(0)
      THEN [ret |-> 0, obj |-> NoObject, removed |-> removed]
      ELSE [ret |-> 0,
            obj |-> [obj EXCEPT
                       !.exists = TRUE,
                       !.data   = htonl(U32Add(U32(g), 1)) \o htonl(newrc),
                       !.omap   = obj.omap \ keys_to_remove(ks, found),
                       !.objver = newver],
            removed |-> removed]

\* A caller starts rt_add or rt_remove of one key.
CallGen(c) ==
  /\ pc[c] = "idle"
  /\ pgver < MaxGenVersion
  /\ \E o \in {"add", "rem"}, k \in Keys :
       /\ op' = [op EXCEPT ![c] = o]
       /\ keys' = [keys EXCEPT ![c] = <<k>>]
  /\ pc' = [pc EXCEPT ![c] = "probe"]
  /\ UNCHANGED <<store, pgver, gen, refcount, ref_keys_found, ret, created,
                 deleted, absKeys, expect, committed, quiet, repeat, retries,
                 creates, ops, after>>
  /\ UNCHANGED <<gen_store, gen_out>>

\* rt_add up to its first round trip: read_version, then the dispatch.
RtAddProbeGen(c) ==
  /\ pc[c] = "probe"
  /\ op[c] = "add"
  /\ Issues(c, "getxattr")
  /\ LET r == read_rt_version(store)
     IN  IF r.ret < 0
         THEN IF r.ret = -ENOENT
              THEN /\ pc' = [pc EXCEPT ![c] = "init"]
                   /\ UNCHANGED <<ret, quiet, repeat>>
              ELSE Returns(c, r.ret, FALSE)
         ELSE IF r.version = U32(1)
              THEN /\ pc' = [pc EXCEPT ![c] = "read"]
                   /\ UNCHANGED <<ret, quiet, repeat>>
              ELSE Returns(c, -1, FALSE)
  /\ NoEffect
  /\ UNCHANGED <<store, pgver, op, keys, gen, refcount, ref_keys_found,
                 created, deleted, committed, retries, creates>>
  /\ UNCHANGED <<gen_store, gen_out>>

\* rt_add, ENOENT branch: init_v1, then created = 1 whatever it returned.
InitV1Gen(c) ==
  /\ pc[c] = "init"
  /\ Issues(c, "create")
  /\ LET r == init_v1_gen(store, keys[c], pgver + 1)
     IN  /\ store' = r.obj
         /\ pgver' = IF r.ret = 0 THEN pgver + 1 ELSE pgver
         /\ creates' = IF r.ret = 0 THEN creates + 1 ELSE creates
         /\ Returns(c, r.ret, r.ret = 0)
         /\ IF r.ret = 0 THEN TakesEffect(c) ELSE NoEffect
  /\ created' = [created EXCEPT ![c] = 1]
  /\ UNCHANGED <<op, keys, gen, refcount, ref_keys_found, deleted,
                 committed, retries>>
  /\ UNCHANGED <<gen_store, gen_out>>

\* add_v1 up to its read: read_v1, then the count of keys to add; nothing to
\* add returns 0 without a write.
AddV1ReadGen(c) ==
  /\ pc[c] = "read"
  /\ op[c] = "add"
  /\ Issues(c, "read")
  /\ LET r == read_v1_gen(store, keys[c])
     IN  IF r.ret < 0
         THEN /\ Returns(c, r.ret, FALSE)
              /\ NoLocals(c)
              /\ NoEffect
         ELSE IF keys_to_add_count(r.found) = 0
         THEN /\ Returns(c, 0, FALSE)
              /\ NoLocals(c)
              /\ TakesEffect(c)
         ELSE /\ pc' = [pc EXCEPT ![c] = "write"]
              /\ gen' = [gen EXCEPT ![c] = r.gen]
              /\ refcount' = [refcount EXCEPT ![c] = r.refcount]
              /\ ref_keys_found' = [ref_keys_found EXCEPT ![c] = r.found]
              /\ NoEffect
              /\ UNCHANGED <<ret, quiet, repeat>>
  /\ UNCHANGED <<store, pgver, op, keys, created, deleted, committed,
                 retries, creates>>
  /\ UNCHANGED <<gen_store, gen_out>>

\* add_v1 from the new gen and refcount to the end: the write operation.
AddV1WriteGen(c) ==
  /\ pc[c] = "write"
  /\ op[c] = "add"
  /\ Issues(c, "write")
  /\ LET w == add_v1_write_gen(store, gen[c], refcount[c], ref_keys_found[c],
                               keys[c], pgver + 1)
     IN  /\ store' = w.obj
         /\ pgver' = IF w.ret = 0 THEN pgver + 1 ELSE pgver
         /\ Returns(c, w.ret, w.ret = 0)
         /\ IF w.ret = 0 THEN TakesEffect(c) ELSE NoEffect
         /\ NoLocalsAfterWrite(c, w.ret)
  /\ UNCHANGED <<op, keys, created, deleted, committed, retries, creates>>
  /\ UNCHANGED <<gen_store, gen_out>>

\* rt_remove up to its first round trip: read_version, then the dispatch.
RtRemoveProbeGen(c) ==
  /\ pc[c] = "probe"
  /\ op[c] = "rem"
  /\ Issues(c, "getxattr")
  /\ LET r == read_rt_version(store)
     IN  IF r.ret < 0
         THEN IF r.ret = -ENOENT
              THEN /\ Returns(c, 0, FALSE)
                   /\ deleted' = [deleted EXCEPT ![c] = 1]
                   /\ TakesEffect(c)
              ELSE /\ Returns(c, r.ret, FALSE)
                   /\ NoEffect
                   /\ UNCHANGED deleted
         ELSE IF r.version = U32(1)
              THEN /\ pc' = [pc EXCEPT ![c] = "read"]
                   /\ NoEffect
                   /\ UNCHANGED <<ret, quiet, repeat, deleted>>
              ELSE /\ Returns(c, -1, FALSE)
                   /\ NoEffect
                   /\ UNCHANGED deleted
  /\ UNCHANGED <<store, pgver, op, keys, gen, refcount, ref_keys_found,
                 created, committed, retries, creates>>
  /\ UNCHANGED <<gen_store, gen_out>>

\* remove_v1 up to its read: read_v1, then the count of keys to remove;
\* nothing to remove returns 0 without a write.
RemoveV1ReadGen(c) ==
  /\ pc[c] = "read"
  /\ op[c] = "rem"
  /\ Issues(c, "read")
  /\ LET r == read_v1_gen(store, keys[c])
     IN  IF r.ret < 0
         THEN /\ Returns(c, r.ret, FALSE)
              /\ NoLocals(c)
              /\ NoEffect
         ELSE IF keys_to_remove_count(r.found) = 0
         THEN /\ Returns(c, 0, FALSE)
              /\ NoLocals(c)
              /\ TakesEffect(c)
         ELSE /\ pc' = [pc EXCEPT ![c] = "write"]
              /\ gen' = [gen EXCEPT ![c] = r.gen]
              /\ refcount' = [refcount EXCEPT ![c] = r.refcount]
              /\ ref_keys_found' = [ref_keys_found EXCEPT ![c] = r.found]
              /\ NoEffect
              /\ UNCHANGED <<ret, quiet, repeat>>
  /\ UNCHANGED <<store, pgver, op, keys, created, deleted, committed,
                 retries, creates>>
  /\ UNCHANGED <<gen_store, gen_out>>

\* remove_v1 from the new gen and refcount to the end: the write operation;
\* removed is handed to the caller whatever the operation returned.
RemoveV1WriteGen(c) ==
  /\ pc[c] = "write"
  /\ op[c] = "rem"
  /\ Issues(c, "write")
  /\ LET w == remove_v1_write_gen(store, gen[c], refcount[c],
                                  ref_keys_found[c], keys[c], pgver + 1)
     IN  /\ store' = w.obj
         /\ pgver' = IF w.ret = 0 THEN pgver + 1 ELSE pgver
         /\ deleted' = [deleted EXCEPT ![c] = w.removed]
         /\ Returns(c, w.ret, w.ret = 0)
         /\ IF w.ret = 0 THEN TakesEffect(c) ELSE NoEffect
         /\ NoLocalsAfterWrite(c, w.ret)
  /\ UNCHANGED <<op, keys, created, committed, retries, creates>>
  /\ UNCHANGED <<gen_store, gen_out>>

\* Any number of single-key calls by every caller, in any interleaving.
NextGen ==
  \E c \in Callers :
    \/ CallGen(c)
    \/ Return(c)
    \/ RtAddProbeGen(c)
    \/ InitV1Gen(c)
    \/ AddV1ReadGen(c)
    \/ AddV1WriteGen(c)
    \/ RtRemoveProbeGen(c)
    \/ RemoveV1ReadGen(c)
    \/ RemoveV1WriteGen(c)

SpecGen == Init /\ [][NextGen]_vars

\* ------------------------------------------------------------------------
\* Properties.
\* ------------------------------------------------------------------------

\* The refcount a reader of the store decodes from the payload.
StoredRefcount == ntohl(store.data)

\* c has returned from a call.
Returned(c) == pc[c] = "done"

\* C1: whenever the tracker object exists, its stored refcount equals the
\* number of keys in its key set.
C1_RefcountIsCardinality ==
  store.exists => StoredRefcount = U32(Cardinality(store.omap))

\* C2: the calls are linearizable with respect to an atomic key set: the
\* key set in the store is the atomic set after the calls that took effect,
\* each at one step between its invocation and its return, and the created /
\* deleted flag of every successful call is the one the atomic set gives.
C2_Linearizable ==
  /\ KeySet = absKeys
  /\ \A c \in Callers :
       (Returned(c) /\ ret[c] = 0) =>
         /\ op[c] = "add" => (created[c] = 1) = expect[c]
         /\ op[c] = "rem" => (deleted[c] = 1) = expect[c]

\* C3: an existing tracker object never has refcount 0.
C3_NoZeroCountObject ==
  store.exists => StoredRefcount # U32(0)

\* Every caller has returned successfully.
AllDone == \A c \in Callers : Returned(c) /\ ret[c] = 0

\* c takes a step of its call.
StepOf(c) == pc[c] \notin {"idle", "done"} /\ pc'[c] # pc[c]

\* C4: two concurrent rt_add calls of one key each against an existing
\* object, retried on failure: no caller retries more than once, both
\* eventually succeed, and then the key set holds both keys.
C4_TwoAddsBothSucceed ==
  /\ [](\A c \in Callers : retries[c] <= 1)
  /\ [](AllDone => \A c \in Callers : keys[c][1] \in KeySet)
  /\ <>[]AllDone

C4_Witness ==
  /\ AllDone
  /\ \E c \in Callers : retries[c] = 1
  /\ \E c, d \in Callers : keys[c] # keys[d]
  /\ \A c \in Callers : keys[c][1] \in KeySet

\* C5: for each store version v at most one write asserting v commits; a
\* write whose asserted version is not the object's fails and changes
\* nothing.
C5_OneCommitPerVersion ==
  /\ [](\A v \in Versions : committed[v] <= 1)
  /\ [][\A c \in Callers :
          (pc[c] = "write" /\ pc'[c] = "done"
             /\ (~store.exists \/ store.objver # gen[c]))
          => (store' = store /\ pgver' = pgver /\ ret'[c] < 0)]_vars

C5_Witness ==
  \E c \in Callers :
    /\ Returned(c)
    /\ ret[c] < 0
    /\ gen[c] # 0
    /\ committed[gen[c]] = 1

\* C6: concurrent first rt_add calls against an absent tracker: exactly one
\* create commits, a create that finds the object fails with EEXIST and
\* leaves it alone, and when every caller has succeeded, the loser of the
\* race after its retry, the key set is the union of the batches and the
\* refcount its cardinality.
C6_CreateRace ==
  /\ [](creates <= 1)
  /\ []((AllDone /\ \E c \in Callers : retries[c] > 0) =>
          /\ creates = 1
          /\ store.exists
          /\ store.omap = UNION {Range(keys[c]) : c \in Callers}
          /\ StoredRefcount = U32(Cardinality(store.omap)))
  /\ [][\A c \in Callers :
          (pc[c] = "init" /\ pc'[c] = "done" /\ store.exists)
          => (store' = store /\ ret'[c] = -EEXIST)]_vars

\* C7: rt_add of a batch with duplicate keys against an absent tracker
\* creates the object with the distinct keys as key set and their number as
\* refcount.
C7_CreateCountsDistinctKeys ==
  [][\A c \in Callers :
       (pc[c] = "init" /\ pc'[c] = "done" /\ ret'[c] = 0
          /\ Cardinality(Range(keys[c])) < Len(keys[c]))
       => /\ store'.exists
          /\ store'.omap = Range(keys[c])
          /\ ntohl(store'.data) = U32(Cardinality(Range(keys[c])))]_vars

\* C8: a committed rt_add against an existing object inserts delta, the set
\* of distinct requested keys not yet present, and increases the refcount
\* by |delta|.
C8_AddCountsDelta ==
  [][\A c \in Callers :
       (pc[c] = "write" /\ op[c] = "add" /\ pc'[c] = "done" /\ ret'[c] = 0)
       => LET delta == Range(keys[c]) \ store.omap
          IN  /\ store'.omap = store.omap \cup delta
              /\ ntohl(store'.data) =
                   U32Add(ntohl(store.data), Cardinality(delta))]_vars

\* C9: a committed rt_remove of the batch K against the key set S deletes
\* the object when every key of S is in K, and only then; otherwise it
\* leaves S minus K with refcount |S| - |S intersect K|.
C9_RemoveCountsDelta ==
  [][\A c \in Callers :
       (pc[c] = "write" /\ op[c] = "rem" /\ pc'[c] = "done" /\ ret'[c] = 0)
       => LET S == store.omap
              K == Range(keys[c])
          IN  IF S \subseteq K
              THEN ~store'.exists
              ELSE /\ store'.exists
                   /\ store'.omap = S \ K
                   /\ ntohl(store'.data) =
                        U32(Cardinality(S) - Cardinality(S \cap K))]_vars

\* C10: an rt_add that repeats the caller's previous successful rt_add with
\* the same batch, no other write in between, performs no write: every
\* step of it leaves the object and the store's version alone, and it
\* returns 0 with created = 0.
C10_RepeatedAddIsNoOp ==
  [][\A c \in Callers :
       (repeat[c] /\ op[c] = "add" /\ StepOf(c))
       => /\ store' = store
          /\ pgver' = pgver
          /\ pc'[c] \notin {"init", "write"}
          /\ (pc'[c] = "done" => ret'[c] = 0 /\ created'[c] = 0)]_vars

C10_Witness ==
  \E c \in Callers :
    /\ Returned(c)
    /\ repeat[c]
    /\ op[c] = "add"
    /\ ret[c] = 0
    /\ created[c] = 0


\* C11: an rt_remove that at once repeats the caller's successful rt_remove
\* of the same keys issues no write and returns 0 with deleted set exactly
\* when the object is absent; and an rt_remove that reads the object and
\* finds none of its keys there issues no write and returns 0 with deleted
\* clear.
C11_RepeatedRemoveIsNoOp ==
  [][\A c \in Callers :
       /\ (repeat[c] /\ op[c] = "rem" /\ after[c] = "rem" /\ StepOf(c))
          => /\ store' = store
             /\ pgver' = pgver
             /\ pc'[c] # "write"
             /\ pc'[c] = "done" =>
                  /\ ret'[c] = 0
                  /\ (deleted'[c] = 1) = ~store.exists
       /\ (/\ op[c] = "rem"
           /\ pc[c] = "read"
           /\ StepOf(c)
           /\ store.exists
           /\ store.objver = gen[c]
           /\ Range(keys[c]) \cap store.omap = {})
          => /\ store' = store
             /\ pgver' = pgver
             /\ pc'[c] = "done"
             /\ ret'[c] = 0
             /\ deleted'[c] = 0]_vars

\* A repeated rt_remove has probed and read the object, which still holds
\* a key, and has returned without a write.
C11_Witness ==
  \E c \in Callers :
    /\ Returned(c)
    /\ op[c] = "rem"
    /\ after[c] = "rem"
    /\ repeat[c]
    /\ ret[c] = 0
    /\ deleted[c] = 0
    /\ store.exists
    /\ ops[c] = <<"getxattr", "read">>
    /\ store.omap # {}


\* The last store operation the call of c has issued.
LastOp(c) == IF ops[c] = <<>> THEN "none" ELSE ops[c][Len(ops[c])]

\* C12: rt_remove reports deleted only if the object was absent at its probe
\* or its own delete committed; an rt_remove whose write fails reports
\* deleted clear.
C12_DeletedOnlyIfGone ==
  \A c \in Callers :
    (Returned(c) /\ op[c] = "rem" /\ deleted[c] = 1) =>
      /\ ret[c] = 0
      /\ \/ ops[c] = <<"getxattr">>
         \/ LastOp(c) = "write"

\* C13: rt_add reports created only if its own exclusive create committed;
\* an rt_add that returns an error, or that adds to an existing object,
\* reports created clear.
C13_CreatedOnlyIfCreated ==
  \A c \in Callers :
    (Returned(c) /\ op[c] = "add" /\ created[c] = 1) =>
      /\ ret[c] = 0
      /\ LastOp(c) = "create"


\* C14: a call that returns an error has changed nothing in the store: the
\* store changes only in the step of a call that returns 0, so the payload,
\* the key set and the version attribute are what they were when the failing
\* call's operation ran.
C14_ErrorLeavesObject ==
  [][\A c \in Callers :
       (StepOf(c) /\ ~(pc'[c] = "done" /\ ret'[c] = 0))
       => /\ store' = store
          /\ pgver' = pgver]_vars

\* An rt_add has returned the error of its failed write and the object is
\* there with the keys of the write that won.
C14_Witness ==
  \E c \in Callers :
    /\ Returned(c)
    /\ op[c] = "add"
    /\ ret[c] < 0
    /\ LastOp(c) = "write"
    /\ store.exists
    /\ ~(Range(keys[c]) \subseteq store.omap)


\* The number of write transactions (exclusive create or versioned write)
\* the call of c has issued.
WritesOf(c) ==
  Cardinality({i \in DOMAIN ops[c] : ops[c][i] \in {"create", "write"}})

\* C15: a call issues at most one write transaction, and when the version
\* assertion of that transaction fails the call returns the store's error
\* at once, with nothing written and no second attempt.
C15_NoInternalRetry ==
  [][\A c \in Callers :
       /\ WritesOf(c)' <= 1
       /\ (pc[c] = "write" /\ StepOf(c) /\ assert_version(store, gen[c]) < 0)
          => /\ pc'[c] = "done"
             /\ ret'[c] = assert_version(store, gen[c])
             /\ store' = store
             /\ pgver' = pgver]_vars

\* An rt_remove has returned the version error of its one write, which it
\* issued after another writer had committed.
C15_Witness ==
  \E c \in Callers :
    /\ Returned(c)
    /\ op[c] = "rem"
    /\ ret[c] = -ERANGE
    /\ ops[c] = <<"getxattr", "read", "write">>
    /\ store.exists
    /\ gen[c] < store.objver


\* c completes a successful rt_remove in this step, on an object that exists
\* and whose refcount is the number of its keys.
RemoveSucceedsOnPresent(c) ==
  /\ op[c] = "rem"
  /\ StepOf(c)
  /\ pc'[c] = "done"
  /\ ret'[c] = 0
  /\ store.exists
  /\ store.omap # {}
  /\ StoredRefcount = U32(Cardinality(store.omap))

\* C16: a successful rt_remove of keys K on an object with key set S, some
\* key of S not in K, leaves key set S \ K and refcount |S \ K| and reports
\* deleted clear; keys of K not in S are ignored.
C16_PartialRemove ==
  [][\A c \in Callers :
       (RemoveSucceedsOnPresent(c) /\ store.omap \ Range(keys[c]) # {})
       => /\ store'.exists
          /\ store'.omap = store.omap \ Range(keys[c])
          /\ ntohl(store'.data) = U32(Cardinality(store.omap \ Range(keys[c])))
          /\ deleted'[c] = 0]_vars

\* C17: a successful rt_remove of keys K on an object with key set S, every
\* key of S in K, removes the object in that step, reports deleted set, and
\* a version probe then finds no object.
C17_FullRemoveDeletes ==
  [][\A c \in Callers :
       (RemoveSucceedsOnPresent(c) /\ store.omap \subseteq Range(keys[c]))
       => /\ store' = NoObject
          /\ deleted'[c] = 1
          /\ read_rt_version(store').ret = -ENOENT]_vars


\* C18: from an absent tracker, rt_add of a batch followed at once by
\* rt_remove of the same batch, with no other writer, reports created on the
\* rt_add, returns 0 with deleted set on the rt_remove, and leaves no object.
C18_AddThenRemove ==
  \A c \in Callers :
    (Returned(c) /\ op[c] = "rem" /\ after[c] = "created" /\ repeat[c])
    => /\ ret[c] = 0
       /\ deleted[c] = 1
       /\ store = NoObject
       /\ ops[c] = <<"getxattr", "read", "write">>

\* The rt_remove that follows the creating rt_add of a batch with a repeated
\* key has returned.
C18_Witness ==
  \E c \in Callers :
    /\ Returned(c)
    /\ op[c] = "rem"
    /\ after[c] = "created"
    /\ repeat[c]
    /\ deleted[c] = 1
    /\ Len(keys[c]) > Cardinality(Range(keys[c]))


\* c completes a successful rt_add in this step, on a tracker that is absent
\* or whose refcount is the number of its keys.
AddSucceeds(c) ==
  /\ op[c] = "add"
  /\ StepOf(c)
  /\ pc'[c] = "done"
  /\ ret'[c] = 0
  /\ store.exists => StoredRefcount = U32(Cardinality(store.omap))

\* C19: after a successful rt_add of a batch K the key set is the old key
\* set with the keys of K and the refcount is the number of keys in it.
C19_AddPostcondition ==
  [][\A c \in Callers :
       AddSucceeds(c)
       => /\ store'.exists
          /\ store'.omap = KeySet \cup Range(keys[c])
          /\ ntohl(store'.data) = U32(Cardinality(store'.omap))]_vars


\* C20 as stated: a call makes at most two store round trips.
C20_AtMostTwoRoundTrips ==
  \A c \in Callers : Len(ops[c]) <= 2

\* C20, amended: a call makes at most three store round trips: the version
\* probe, then either the exclusive create (rt_add on an absent tracker) or
\* the read and at most one write; the write is issued only when the read
\* found a key to add or to remove.
C20_AtMostThreeRoundTrips ==
  \A c \in Callers :
    /\ ops[c] \in {<<>>,
                   <<"getxattr">>,
                   <<"getxattr", "create">>,
                   <<"getxattr", "read">>,
                   <<"getxattr", "read", "write">>}
    /\ (pc[c] = "write" /\ op[c] = "add")
       => \E i \in DOMAIN keys[c] : ~ref_keys_found[c][i]
    /\ (pc[c] = "write" /\ op[c] = "rem")
       => \E i \in DOMAIN keys[c] : ref_keys_found[c][i]

\* A successful call has made three round trips.
C20_Witness ==
  \E c \in Callers :
    /\ Returned(c)
    /\ ret[c] = 0
    /\ ops[c] = <<"getxattr", "read", "write">>


\* C21: an rt_remove whose probe finds no object returns 0 with deleted set
\* after that one operation: no read, no write, and the tracker stays
\* absent.
C21_RemoveOnAbsent ==
  [][\A c \in Callers :
       (op[c] = "rem" /\ pc[c] = "probe" /\ StepOf(c) /\ ~store.exists)
       => /\ pc'[c] = "done"
          /\ ret'[c] = 0
          /\ deleted'[c] = 1
          /\ ops'[c] = <<"getxattr">>
          /\ store' = NoObject
          /\ pgver' = pgver]_vars

\* An rt_remove has returned from its probe of an absent tracker.
C21_Witness ==
  \E c \in Callers :
    /\ Returned(c)
    /\ op[c] = "rem"
    /\ ops[c] = <<"getxattr">>
    /\ ret[c] = 0
    /\ deleted[c] = 1
    /\ store = NoObject
    /\ pgver > 0


\* C22: a call whose probe finds an object with a version xattr other than
\* 1 returns an error after that one operation: no read, no write, created
\* and deleted clear, object unchanged.
C22_UnknownVersion ==
  [][\A c \in Callers :
       (/\ pc[c] = "probe"
        /\ StepOf(c)
        /\ store.exists
        /\ store.xattr # <<>>
        /\ ntohl(store.xattr) # U32(RT_CURRENT_VERSION))
       => /\ pc'[c] = "done"
          /\ ret'[c] < 0
          /\ created'[c] = 0
          /\ deleted'[c] = 0
          /\ ops'[c] = <<"getxattr">>
          /\ store' = store
          /\ pgver' = pgver]_vars

\* An rt_add and an rt_remove have both returned from an object of unknown
\* version.
C22_Witness ==
  \E c, d \in Callers :
    /\ Returned(c) /\ op[c] = "add" /\ ret[c] = -1
    /\ Returned(d) /\ op[d] = "rem" /\ ret[d] = -1
    /\ store.exists
    /\ ntohl(store.xattr) \in UnknownVersions


\* C23: in the payload-generation revision a write commits only on the
\* object state its caller read (also across a delete and re-create of the
\* object), and the stored refcount is the number of keys in every state.
C23_GenSafe ==
  [][/\ store'.exists =>
          PayloadRefcount(store'.data) = U32(Cardinality(store'.omap))
     /\ \A c \in Callers :
          (pc[c] = "write" /\ StepOf(c) /\ ret'[c] = 0)
          => read_v1_gen(store, keys[c])
               = [ret |-> 0, gen |-> gen[c], refcount |-> refcount[c],
                  found |-> ref_keys_found[c]]]_vars


\* C24: the version xattr is written by the exclusive create only: a step
\* that leaves an existing object in place keeps its xattr, and the xattr
\* of a new object is the one init_v1 of the creating call sets.
C24_VersionImmutable ==
  [][/\ (store.exists /\ store'.exists) => store'.xattr = store.xattr
     /\ (~store.exists /\ store'.exists)
        => /\ \E c \in Callers : pc[c] = "init" /\ StepOf(c) /\ ret'[c] = 0
           /\ store'.xattr = htonl(U32(RT_CURRENT_VERSION))]_vars

\* An rt_add has rewritten an existing object, which still carries the
\* version xattr of its creation.
C24_Witness ==
  \E c \in Callers :
    /\ Returned(c)
    /\ op[c] = "add"
    /\ ret[c] = 0
    /\ LastOp(c) = "write"
    /\ quiet[c]
    /\ store.exists
    /\ store.xattr = htonl(U32(RT_CURRENT_VERSION))


\* KeySet after the step.
KeySetNext == IF store'.exists THEN store'.omap ELSE {}

\* C25: a key leaves the key set only in the committing step of an
\* rt_remove whose batch holds it, and enters it only in the committing step
\* of an rt_add whose batch holds it.
C25_MembershipByOwnKeys ==
  [][\A k \in Keys :
       /\ (k \in KeySet /\ k \notin KeySetNext)
          => \E c \in Callers :
               /\ StepOf(c) /\ op[c] = "rem" /\ ret'[c] = 0
               /\ k \in Range(keys[c])
       /\ (k \notin KeySet /\ k \in KeySetNext)
          => \E c \in Callers :
               /\ StepOf(c) /\ op[c] = "add" /\ ret'[c] = 0
               /\ k \in Range(keys[c])]_vars


\* C26: the refcount an rt_remove read is never smaller than the number of
\* removals it subtracts, so refcount - count does not wrap around.
C26_RemoveNoWrap ==
  \A c \in Callers :
    (pc[c] = "write" /\ op[c] = "rem")
    => \/ refcount[c].hi > 0
       \/ refcount[c].lo >= keys_to_remove_count(ref_keys_found[c])


\* C27: read_v1 hands refcount and presence vector to the write only when
\* it read them, in its one read operation, at the version the probe
\* recorded, and a write commits only on the object at that version: a
\* committed write was computed from the state it replaces.
C27_WriteFromStateRead ==
  [][\A c \in Callers :
       /\ (pc[c] = "read" /\ StepOf(c) /\ pc'[c] = "write")
          => /\ store.exists
             /\ store.objver = gen[c]
             /\ gen'[c] = gen[c]
             /\ refcount'[c] = ntohl(store.data)
             /\ ref_keys_found'[c] = found_vector(store.omap, keys[c])
       /\ (pc[c] = "write" /\ StepOf(c) /\ ret'[c] = 0)
          => /\ store.exists
             /\ store.objver = gen[c]
             /\ refcount[c] = ntohl(store.data)
             /\ ref_keys_found[c] = found_vector(store.omap, keys[c])]_vars

\* An rt_remove has committed a rewrite of the object it read.
C27_Witness ==
  \E c \in Callers :
    /\ Returned(c)
    /\ op[c] = "rem"
    /\ ret[c] = 0
    /\ ops[c] = <<"getxattr", "read", "write">>
    /\ store.exists


\* C28: with batches that name no key twice, an existing object always has
\* refcount equal to the number of its keys, and at least 1.
C28_DistinctKeysInvariant ==
  store.exists =>
    /\ StoredRefcount = U32(Cardinality(store.omap))
    /\ Cardinality(store.omap) >= 1

\* A caller whose call failed on another caller's write has called again
\* and succeeded, and the object holds both keys.
C28_Witness ==
  \E c \in Callers :
    /\ Returned(c)
    /\ retries[c] > 0
    /\ ret[c] = 0
    /\ LastOp(c) = "write"
    /\ store.exists
    /\ store.omap = Keys


\* C29: rt_add of q and rt_remove of p race on the object {p}, retried
\* until they succeed: the rt_add writes only into the object, at the
\* version it read it, both calls end successfully, and the object then
\* holds q alone with refcount 1.
C29_AddRemoveRace ==
  /\ [][\A c \in Callers :
          (op[c] = "add" /\ pc[c] = "write" /\ StepOf(c) /\ ret'[c] = 0)
          => /\ store.exists
             /\ store.objver = gen[c]
             /\ refcount[c] = ntohl(store.data)]_vars
  /\ [](AllDone =>
          /\ store.exists
          /\ \A c \in Callers : op[c] = "add" => store.omap = Range(keys[c])
          /\ StoredRefcount = U32(1))
  /\ <>AllDone

\* Both calls have succeeded, the rt_add after a failed attempt on the
\* deleted object.
C29_Witness ==
  /\ AllDone
  /\ \E c \in Callers :
       /\ op[c] = "add"
       /\ retries[c] > 0
       /\ created[c] = 1


\* C30: a call returns a version error only from its read or its write,
\* before any write of its own, and only when a write committed after its
\* probe, so that the object is gone or newer than the version probed; a
\* call that no other caller's write overlaps never returns one.
C30_ConflictOnlyFromOthers ==
  [][\A c \in Callers :
       (StepOf(c) /\ pc'[c] = "done" /\ ret'[c] \in {-ERANGE, -EOVERFLOW})
       => /\ pc[c] \in {"read", "write"}
          /\ WritesOf(c) = 0
          /\ gen[c] < pgver
          /\ ~store.exists \/ store.objver > gen[c]]_vars

\* An rt_add has returned -ERANGE from its read: the other caller's write
\* committed between its probe and its read.
C30_Witness ==
  \E c \in Callers :
    /\ Returned(c)
    /\ op[c] = "add"
    /\ ret[c] = -ERANGE
    /\ ops[c] = <<"getxattr", "read">>
    /\ store.exists


\* Every caller starts with one call of any operation and batch against any
\* tracker state; a caller whose call failed calls again with the same
\* arguments, and a caller whose call succeeded may follow it once by rt_add
\* or rt_remove of the same keys.  Each caller makes at most two operations.
\* The tracker starts absent or holding one key; the keys being
\* interchangeable, which key it holds does not matter.
InitLive ==
  \E T \in SUBSET {CHOOSE k \in Keys : TRUE} :
    /\ store = IF T = {} THEN NoObject ELSE TrackerOf(T)
    /\ pgver = IF T = {} THEN 0 ELSE 1
    /\ absKeys = T
    /\ pc = [c \in Callers |-> "probe"]
    /\ op \in [Callers -> {"add", "rem"}]
    /\ keys \in [Callers -> Batches]
    /\ InitCallers

FollowUp(c) ==
  /\ after[c] = "none"
  /\ \/ CallAgain(c)
     \/ RemoveAgain(c)
     \/ ThenRemove(c)

NextLive == \E c \in Callers : CallStep(c) \/ FollowUp(c)

SpecLive ==
  InitLive /\ [][NextLive]_vars
    /\ \A c \in Callers : WF_vars(CallStep(c))

\* C31: with each caller making finitely many operations and restarting a
\* failed one from the probe, under weak fairness of every caller's steps
\* every operation eventually returns success: in the end every caller rests
\* on a successful return (a caller starts its second operation only after
\* its first returned success), and a caller never restarts more often than
\* the store has committed writes: no livelock.
C31_EverySuccess ==
  /\ [](\A c \in Callers : retries[c] <= pgver)
  /\ <>[]AllDone

\* A caller's second operation has returned success after two failed
\* attempts.
C31_Witness ==
  \E c \in Callers :
    /\ Returned(c) /\ ret[c] = 0
    /\ after[c] # "none"
    /\ retries[c] >= 2


\* ------------------------------------------------------------------------
\* The two revisions side by side: every call is made on the store-version
\* revision, one round trip at a time, and on the payload-generation
\* revision, which works on a store of its own.
\* ------------------------------------------------------------------------

\* add_v1 of the payload-generation revision, run without interruption:
\* read_v1, the count of keys to add, and the write operation unless
\* nothing is to add.
add_v1_gen(obj, ks, newver) ==
  LET r == read_v1_gen(obj, ks)
  IN  IF r.ret < 0 THEN [ret |-> r.ret, obj |-> obj]
      ELSE IF keys_to_add_count(r.found) = 0 THEN [ret |-> 0, obj |-> obj]
      ELSE add_v1_write_gen(obj, r.gen, r.refcount, r.found, ks, newver)

\* remove_v1 of the payload-generation revision, run without interruption.
remove_v1_gen(obj, ks, newver) ==
  LET r == read_v1_gen(obj, ks)
  IN  IF r.ret < 0 THEN [ret |-> r.ret, obj |-> obj, removed |-> 0]
      ELSE IF keys_to_remove_count(r.found) = 0
      THEN [ret |-> 0, obj |-> obj, removed |-> 0]
      ELSE remove_v1_write_gen(obj, r.gen, r.refcount, r.found, ks, newver)

\* rt_add of the payload-generation revision, run without interruption.
rt_add_gen(obj, ks, newver) ==
  LET v == read_rt_version(obj)
  IN  IF v.ret < 0
      THEN IF v.ret = -ENOENT
           THEN LET i == init_v1_gen(obj, ks, newver)
                IN  [ret |-> i.ret, created |-> 1, deleted |-> 0,
                     obj |-> i.obj]
           ELSE [ret |-> v.ret, created |-> 0, deleted |-> 0, obj |-> obj]
      ELSE IF v.version = U32(1)
      THEN LET a == add_v1_gen(obj, ks, newver)
           IN  [ret |-> a.ret, created |-> 0, deleted |-> 0, obj |-> a.obj]
      ELSE [ret |-> -1, created |-> 0, deleted |-> 0, obj |-> obj]

\* rt_remove of the payload-generation revision, run without interruption.
rt_remove_gen(obj, ks, newver) ==
  LET v == read_rt_version(obj)
  IN  IF v.ret < 0
      THEN IF v.ret = -ENOENT
           THEN [ret |-> 0, created |-> 0, deleted |-> 1, obj |-> obj]
           ELSE [ret |-> v.ret, created |-> 0, deleted |-> 0, obj |-> obj]
      ELSE IF v.version = U32(1)
      THEN LET r == remove_v1_gen(obj, ks, newver)
           IN  [ret |-> r.ret, created |-> 0, deleted |-> r.removed,
                obj |-> r.obj]
      ELSE [ret |-> -1, created |-> 0, deleted |-> 0, obj |-> obj]

\* A caller starts rt_add or rt_remove while no other call is in progress.
\* The same call is made on the payload-generation revision, which, with no
\* other call in progress, runs it to its end; the version its store
\* assigns is never read by that revision.
CallBoth(c) ==
  /\ \A d \in Callers : pc[d] = "idle"
  /\ pgver < MaxGenVersion
  /\ \E o \in {"add", "rem"}, ks \in Batches :
       /\ op' = [op EXCEPT ![c] = o]
       /\ keys' = [keys EXCEPT ![c] = ks]
       /\ LET g == IF o = "add" THEN rt_add_gen(gen_store, ks, pgver + 1)
                   ELSE rt_remove_gen(gen_store, ks, pgver + 1)
          IN  /\ gen_store' = g.obj
              /\ gen_out' = [ret |-> g.ret, created |-> g.created,
                             deleted |-> g.deleted]
  /\ pc' = [pc EXCEPT ![c] = "probe"]
  /\ UNCHANGED <<store, pgver, gen, refcount, ref_keys_found, ret, created,
                 deleted, absKeys, expect, committed, quiet, repeat, retries,
                 creates, ops, after>>

NextBoth ==
  \E c \in Callers :
    \/ CallBoth(c)
    \/ Return(c)
    \/ RtAddProbe(c)
    \/ InitV1(c)
    \/ AddV1Read(c)
    \/ AddV1Write(c)
    \/ RtRemoveProbe(c)
    \/ RemoveV1Read(c)
    \/ RemoveV1Write(c)

SpecBoth == Init /\ [][NextBoth]_vars

\* C32: in every sequence of calls that do not overlap, after every call the
\* two revisions have returned the same value and the same created and
\* deleted flags, and hold the same key set and the same refcount (or both
\* no object).
C32_RevisionsAgree ==
  /\ \A c \in Callers :
       Returned(c) =>
         /\ ret[c] = gen_out.ret
         /\ created[c] = gen_out.created
         /\ deleted[c] = gen_out.deleted
  /\ (\A c \in Callers : pc[c] \in {"idle", "done"}) =>
       /\ store.exists = gen_store.exists
       /\ store.omap = gen_store.omap
       /\ store.xattr = gen_store.xattr
       /\ store.exists => ntohl(store.data) = PayloadRefcount(gen_store.data)

\* A third call, an rt_remove of a batch that names a key twice, has
\* returned on both revisions with the object kept and the refcount off the
\* number of keys.
C32_Witness ==
  \E c \in Callers :
    /\ Returned(c)
    /\ op[c] = "rem"
    /\ Len(keys[c]) > Cardinality(Range(keys[c]))
    /\ pgver = MaxGenVersion
    /\ store.exists /\ gen_store.exists
    /\ U32Val(PayloadGen(gen_store.data)) = MaxGenVersion
    /\ ntohl(store.data) # U32(Cardinality(store.omap))

====
